---------------------------- MODULE Spec2Model ----------------------------
(***************************************************************************)
(* Model of voxly: the resilience primitives (package resilience:          *)
(* CircuitBreaker, RetryWithExponentialBackoff, RateLimiter), the worker's *)
(* processing of one task (Processor.ProcessTask, with the task and        *)
(* transcript rows in Postgres and the text of the recognition result),    *)
(* the consumer loop RabbitMQ.Consume, the bot's handlers, the polling     *)
(* loop speechkit.Client.WaitForResult, and processing cycles of several   *)
(* worker instances on the same stored task.                               *)
(*                                                                         *)
(* Time is an integer clock `now`; one unit is the granularity in which    *)
(* the durations of the model (timeout, interval) are expressed.           *)
(*                                                                         *)
(* A step of the model is what the code does atomically: one critical      *)
(* section of a mutex, or the purely local code of one goroutine between   *)
(* two points where another goroutine can be observed.                     *)
(***************************************************************************)
EXTENDS Integers, Naturals, Sequences, FiniteSets, TLC

(***************************************************************************)
(* Bounds of the model.                                                    *)
(***************************************************************************)
NumCallers == 2       \* goroutines calling CircuitBreaker.Execute
MaxThreshold == 2     \* largest maxFailures a breaker is built with
MaxCooldown == 2      \* largest timeout a breaker is built with
MaxTime == 4          \* the clock stops here
MaxCalls == 5         \* Execute calls in one behaviour
MaxResets == 1        \* Reset calls in one behaviour
MaxAttemptsBound == 3 \* largest RetryConfig.MaxAttempts
MaxIntervalBound == 2 \* largest RetryConfig.InitialInterval and MaxInterval
MaxRate == 2          \* largest rate a limiter is built with
MaxRefill == 2        \* largest interval a limiter is built with
MaxAllows == 4        \* Allow calls in one behaviour
NumWaiters == 1       \* goroutines calling RateLimiter.Wait
MaxDeliveries == 4    \* deliveries of the task's queue message
NumChats == 1         \* chats that talk to the bot
NumMessageIDs == 2    \* message ids in a chat
MaxSubmissions == 2   \* voice updates the bot handles in one behaviour
MaxTexts == 2         \* chunks, and alternatives in all, of a recognition result
TextDeliveries == 1   \* deliveries explored for each recognition result
NumMessages == 3      \* messages published to the queue Consume reads
MaxHandled == 4       \* calls of the handler by Consume in one behaviour
NumWorkers == 2       \* worker instances that get deliveries for one task
MaxCycles == 2        \* processing cycles of one worker instance

VARIABLES
    now,        \* the clock: time.Now()
    cb,         \* the CircuitBreaker struct
    pc,         \* pc[c]: where caller c is in Execute: "idle" or "fn"
    lastRet,    \* what the Execute call that returned last returned
    calls,      \* history: Execute calls made
    invoked,    \* history: invocations of the wrapped function
    trial,      \* history: the caller let through as the trial, or None
    consec,     \* history: failed calls since the last success / Reset
    maxConsec,  \* history: the largest value consec has had
    everOpen,   \* history: the breaker has been Open
    resets      \* history: Reset calls made

cbVars == <<cb, pc, lastRet, calls, invoked, trial, consec, maxConsec,
            everOpen, resets>>

VARIABLES
    config,        \* the RetryConfig of the call
    failN,         \* fn fails its first failN invocations, then succeeds
    rpc,           \* where RetryWithExponentialBackoff is:
                   \* "loop", "fn", "sleep" or "done"
    attempt,       \* the loop variable
    interval,      \* the local variable interval
    lastErr,       \* the local variable lastErr
    ctxDone,       \* ctx has been cancelled
    sleepLeft,     \* what is left of the time.Sleep under way
    result,        \* what the call returned
    fnCalls,       \* history: invocations of fn
    waits,         \* history: the durations slept, in order
    fnCallsAtCancel,   \* history: fnCalls when ctx was cancelled
    phaseAtCancel      \* history: rpc when ctx was cancelled

retryVars == <<config, failN, rpc, attempt, interval, lastErr, ctxDone,
               sleepLeft, result, fnCalls, waits, fnCallsAtCancel,
               phaseAtCancel>>

VARIABLES
    rl,            \* the RateLimiter struct
    allowed,       \* history: the time and the result of each Allow call
    wpc,           \* wpc[w]: where waiter w is in Wait: "idle", "select"
                   \* (blocked in the select), "allow" (the timer case was
                   \* taken, Allow is about to be called) or "done"
    wctxDone,      \* wctxDone[w]: the ctx of w's Wait has been cancelled
    deadline,      \* deadline[w]: when the time.After of w's select fires
    wret,          \* wret[w]: what w's Wait returned
    wtaken,        \* history: tokens w's Wait has consumed
    dryAtCancel    \* history: w's ctx was cancelled inside Wait while the
                   \* limiter had no token to give

rlVars == <<rl, allowed, wpc, wctxDone, deadline, wret, wtaken, dryAtCancel>>

VARIABLES
    stored,        \* the row of the task in the tasks table
    transcriptRows,    \* the text of each row of the task in the transcripts
                       \* table, in the order of the INSERTs
    recognition,       \* the RecognitionResult the recognizer gives for the
                       \* audio of the task, when it gives one
    recognizedText,    \* the local variable recognizedText of ProcessTask
    present,           \* whether the tasks table has the row the message names
    msg,           \* the queue message of the task: "ready" (in the queue),
                   \* "unacked" (delivered to the worker) or "acked" (gone)
    ppc,           \* where ProcessTask is, "idle" between two deliveries
    task,          \* the *model.Task that ProcessTask holds
    operations,    \* the recognition operations started so far
    deliveries,    \* history: deliveries of the message so far
    outcome,       \* history: how the last processing cycle ended
    notices        \* history: failure notifications sent to the user

taskVars == <<stored, transcriptRows, recognition, recognizedText, present,
              msg, ppc, task, operations, deliveries, outcome, notices>>

\* The number of rows of the task in the transcripts table.
transcripts == Len(transcriptRows)

VARIABLES
    active,        \* the chats whose "chat:active" key is "true" in the cache
    rows,          \* the rows of the tasks table: id, chat and message id
    published,     \* published[h]: messages in the queue for task id h
    hpc,           \* hpc[h]: where the h-th call of handleVoice is: "new",
                   \* "publish" (the task is stored), "done"
    hpair,         \* hpair[h]: the chat and message id of the h-th update
    hret,          \* hret[h]: how the h-th call ended
    submitted      \* the voice updates handled so far

botVars == <<active, rows, published, hpc, hpair, hret, submitted>>

VARIABLES
    ready,         \* the broker's queue: the messages waiting for a delivery
    unacked,       \* the messages delivered to the consumer and not settled
    msgs,          \* the Go channel msgs of Consume: deliveries not yet read
    cpc,           \* where Consume is: "range", "handler", "returned", "exited"
    cmsg,          \* the delivery msg of the current iteration
    herr,          \* whether handler(msg.Body) returned an error
    handled,       \* the calls of the handler so far
    decisions      \* history: the Ack and Nack calls of Consume, in order

consumeVars == <<ready, unacked, msgs, cpc, cmsg, herr, handled, decisions>>

VARIABLES
    opc,           \* where WaitForResult is: "check", "request", "sleep",
                   \* "returned"
    elapsed,       \* time.Since(startTime), in seconds
    polls,         \* history: the GET requests WaitForResult has sent
    opret          \* what WaitForResult returned

pollVars == <<opc, elapsed, polls, opret>>

VARIABLES
    wpos,          \* where the cycle of each worker instance is: "idle",
                   \* "load", "mark", "start", "wait"
    wtask,         \* the task each instance holds in memory
    wloaded,       \* history: the status each instance loaded
    wcycles,       \* history: the cycles each instance has begun
    failedCycles,  \* history: the cycles that ended in handleTaskError
    overwritten    \* history: a write of a cycle that had loaded the task
                   \* before it was Done has replaced the status Done

dupVars == <<wpos, wtask, wloaded, wcycles, failedCycles, overwritten>>

vars == <<now, cbVars, retryVars, rlVars, taskVars, botVars, consumeVars,
          pollVars, dupVars>>

\* What the steps of one component leave alone.
notCB ==
    <<retryVars, rlVars, taskVars, botVars, consumeVars, pollVars, dupVars>>
notRetry ==
    <<now, cbVars, rlVars, taskVars, botVars, consumeVars, pollVars, dupVars>>
notRL ==
    <<cbVars, retryVars, taskVars, botVars, consumeVars, pollVars, dupVars>>
\* (no statement of the worker inserts or deletes a row of the tasks table)
notTask == <<now, cbVars, retryVars, rlVars, botVars, consumeVars, pollVars,
            dupVars, present>>
notBot ==
    <<now, cbVars, retryVars, rlVars, taskVars, consumeVars, pollVars, dupVars>>
notConsume ==
    <<now, cbVars, retryVars, rlVars, taskVars, botVars, pollVars, dupVars>>
notPoll ==
    <<now, cbVars, retryVars, rlVars, taskVars, botVars, consumeVars, dupVars>>
\* (the cycles of several worker instances share the stored task only)
notDup ==
    <<now, cbVars, retryVars, rlVars, botVars, consumeVars, pollVars, present,
      transcriptRows, recognition, recognizedText, msg, ppc, task, operations,
      deliveries, outcome, notices>>

(***************************************************************************)
(* CircuitBreaker                                                          *)
(***************************************************************************)
StateClosed == "StateClosed"
StateOpen == "StateOpen"
StateHalfOpen == "StateHalfOpen"

ErrCircuitOpen == "ErrCircuitOpen"

Callers == 1..NumCallers
None == NumCallers + 1

\* The zero time.Time of a breaker that has not failed yet: so long ago that
\* time.Since of it exceeds every timeout.
ZeroTime == 0 - (MaxTime + MaxCooldown + 1)

NewCircuitBreaker(maxFailures, timeout) ==
    [maxFailures |-> maxFailures, timeout |-> timeout, state |-> StateClosed,
     failures |-> 0, lastFailTime |-> ZeroTime]

\* time.Since(cb.lastFailTime) at clock reading t
Since(b, t) == t - b.lastFailTime

\* time.Since(cb.lastFailTime) > cb.timeout
CooldownElapsed(b, t) == Since(b, t) > b.timeout

\* The first critical section of Execute: the call is let through unless the
\* breaker is Open and the cooldown has not elapsed.
Admitted(b, t) == b.state # StateOpen \/ CooldownElapsed(b, t)

\* The breaker after the first critical section.
AfterGate(b, t) ==
    IF b.state = StateOpen /\ CooldownElapsed(b, t)
    THEN [b EXCEPT !.state = StateHalfOpen, !.failures = 0]
    ELSE b

\* Mutant of OnFailure.
OnFailureOffByOne(b, t) ==
    LET f == b.failures + 1
    IN  [b EXCEPT !.failures = f, !.lastFailTime = t,
                  !.state = IF f > b.maxFailures THEN StateOpen ELSE b.state]

\* The second critical section of Execute when fn returned an error.
OnFailure(b, t) ==
    LET f == b.failures + 1
    IN  [b EXCEPT !.failures = f, !.lastFailTime = t,
                  !.state = IF f >= b.maxFailures THEN StateOpen ELSE b.state]

\* Mutant of OnSuccess.
OnSuccessKeepsCount(b) ==
    [b EXCEPT !.state = IF b.state = StateHalfOpen THEN StateClosed ELSE b.state]

\* The second critical section of Execute when fn returned nil.
OnSuccess(b) ==
    [b EXCEPT !.state = IF b.state = StateHalfOpen THEN StateClosed ELSE b.state,
              !.failures = 0]

GetState == cb.state

(***************************************************************************)
(* RetryWithExponentialBackoff                                             *)
(***************************************************************************)
\* Errors: nil, the error of fn's k-th invocation, ctx.Err().
Nil == <<"nil", 0>>
FnErr(k) == <<"fnErr", k>>
CtxErr == <<"ctxErr", 0>>
NoResult == <<"none", 0>>

\* RetryConfig.Multiplier is a float64: the ratio m[1] / m[2].
Multipliers == {<<1, 1>>, <<3, 2>>, <<2, 1>>}

RetryConfigs ==
    [MaxAttempts : (0 - 1)..MaxAttemptsBound,
     InitialInterval : 1..MaxIntervalBound,
     MaxInterval : 1..MaxIntervalBound,
     Multiplier : Multipliers]

\* What fn returns on its k-th invocation.
FnOutcome(k) == IF k <= failN THEN FnErr(k) ELSE Nil

\* Mutant of LoopCondition.
LoopConditionAtLeastOnce(cfg, a) == a = 0 \/ a < cfg.MaxAttempts

\* Mutant of LoopCondition.
LoopConditionOffByOne(cfg, a) == a < cfg.MaxAttempts - 1

\* attempt < config.MaxAttempts
LoopCondition(cfg, a) == a < cfg.MaxAttempts

\* Mutant of SleepCondition.
SleepConditionAlways(cfg, a) == TRUE

\* attempt < config.MaxAttempts-1
SleepCondition(cfg, a) == a < cfg.MaxAttempts - 1

\* time.Duration(float64(interval) * config.Multiplier), capped at MaxInterval
NextInterval(cfg, i) ==
    LET scaled == (i * cfg.Multiplier[1]) \div cfg.Multiplier[2]
    IN  IF scaled > cfg.MaxInterval THEN cfg.MaxInterval ELSE scaled

(***************************************************************************)
(* RateLimiter                                                             *)
(***************************************************************************)
NewRateLimiter(rate, ival, t) ==
    [rate |-> rate, interval |-> ival, tokens |-> rate, lastTime |-> t]

\* int(elapsed / rl.interval) at clock reading t
TokensToAdd(r, t) == (t - r.lastTime) \div r.interval

\* Mutant of Refill.
RefillNever(r, t) == r

\* Allow's lazy replenishment: whole intervals elapsed since lastTime add
\* tokens, up to rate, and move lastTime to now.
Refill(r, t) ==
    IF TokensToAdd(r, t) > 0
    THEN [r EXCEPT !.tokens = IF r.tokens + TokensToAdd(r, t) > r.rate
                              THEN r.rate
                              ELSE r.tokens + TokensToAdd(r, t),
                   !.lastTime = t]
    ELSE r

\* What Allow returns at clock reading t.
AllowResult(r, t) == Refill(r, t).tokens > 0

\* Mutant of AfterAllow.
AfterAllowKeepsToken(r, t) == Refill(r, t)

\* The limiter after Allow at clock reading t.
AfterAllow(r, t) ==
    IF AllowResult(r, t)
    THEN [Refill(r, t) EXCEPT !.tokens = @ - 1]
    ELSE Refill(r, t)

(***************************************************************************)
(* Task (package model) and the rows the worker keeps in Postgres.         *)
(***************************************************************************)
TaskStatusQueued == "queued"
TaskStatusInProgress == "in_progress"
TaskStatusDone == "done"
TaskStatusFailed == "failed"

\* The *string fields of Task: nil, or a pointer to a string. An operation
\* id is the number of the recognition operation, the empty string is 0.
NilString == <<"nil", 0>>
OperationIDOf(n) == <<"str", n>>
EmptyOperationID == OperationIDOf(0)
NilText == <<"nil", "">>
TextOf(str) == <<"str", str>>

\* The Task the bot creates and stores before it publishes the message.
NewTask ==
    [Status |-> TaskStatusQueued, OperationID |-> NilString, Attempts |-> 0,
     ErrorText |-> NilText]

RetryCeiling == 3

CanRetry(t) == t.Status = TaskStatusFailed /\ t.Attempts < RetryCeiling

\* Mutant of IncrementAttempts.
IncrementAttemptsTwice(t) == [t EXCEPT !.Attempts = @ + 2]

IncrementAttempts(t) == [t EXCEPT !.Attempts = @ + 1]

SetError(t, errorText) ==
    [t EXCEPT !.Status = TaskStatusFailed, !.ErrorText = TextOf(errorText)]

SetCompleted(t) == [t EXCEPT !.Status = TaskStatusDone]

\* Mutant of SetInProgress.
SetInProgressKeepsOperationID(t, operationID) ==
    [t EXCEPT !.Status = TaskStatusInProgress]

SetInProgress(t, operationID) ==
    [t EXCEPT !.Status = TaskStatusInProgress, !.OperationID = operationID]

\* PostgresStorage.UpdateTask: the row takes every field of t, unless the
\* statement fails.
UpdateTask(row, t, dbOk) == IF dbOk THEN t ELSE row

\* How a processing cycle ended: kind is "none" while a cycle runs or before
\* the first one, "failed" after handleTaskError, "done" after a return of
\* nil, "noload" when the task could not be loaded, "killed" when the worker
\* exited during the cycle. before is Attempts as the cycle loaded it.
NoOutcome ==
    [kind |-> "none", reason |-> "", before |-> 0, persisted |-> FALSE,
     sent |-> "none"]

\* RecognitionResult: Chunks is a sequence of chunks, a chunk the sequence of
\* the texts of its alternatives.
Words == {"", "hello", "world"}

SeqsUpTo(S, n) == UNION {[1..k -> S] : k \in 0..n}

RECURSIVE TotalAlternatives(_)
TotalAlternatives(chunks) ==
    IF chunks = <<>> THEN 0
    ELSE Len(Head(chunks)) + TotalAlternatives(Tail(chunks))

Results ==
    {r \in SeqsUpTo(SeqsUpTo(Words, MaxTexts), MaxTexts) :
        TotalAlternatives(r) <= MaxTexts}

\* The results of the behaviours that follow one task over many deliveries:
\* nothing recognized, and one chunk with one alternative.
SampleResults == {<<>>, <<<<"hello">>>>}

\* Mutant of AlternativesText.
RECURSIVE AlternativesTextUnspaced(_)
AlternativesTextUnspaced(alternatives) ==
    IF alternatives = <<>> THEN ""
    ELSE Head(alternatives) \o AlternativesTextUnspaced(Tail(alternatives))

\* The inner loop of GetFullText: text += alt.Text + " "
RECURSIVE AlternativesText(_)
AlternativesText(alternatives) ==
    IF alternatives = <<>> THEN ""
    ELSE Head(alternatives) \o " " \o AlternativesText(Tail(alternatives))

RECURSIVE GetFullText(_)
GetFullText(chunks) ==
    IF chunks = <<>> THEN ""
    ELSE AlternativesText(Head(chunks)) \o GetFullText(Tail(chunks))

\* r.channel.Qos(1, 0, false)
PrefetchCount == 1

\* The constants of package speechkit, in seconds.
OperationPoll == 5
MaxWaitTime == 1800
RequestTimeout == 30

\* How long a GET of the operation takes: at once, a second, or up to the
\* timeout of the http client.
RequestTimes == {0, 1, RequestTimeout}

\* Mutant of TimeoutExceeded.
TimeoutExceededLate(e) == e > 2 * MaxWaitTime

\* time.Since(startTime) > MaxWaitTime
TimeoutExceeded(e) == e > MaxWaitTime

\* Mutant of Decision.
DecisionAlwaysAck(err) == "ack"

\* The loop body of Consume after the handler returned.
Decision(err) == IF err THEN "nack requeue" ELSE "ack"

\* Mutant of ReturnedAfterSend.
ReturnedAfterSendError(ok) == IF ok THEN "nil" ELSE "err"

\* What ProcessTask returns after sendResultToUser: the error is only logged.
ReturnedAfterSend(ok) == "nil"

\* Mutant of NotifiesUser.
NotifiesUserAlways(t) == TRUE

\* handleTaskError tells the user about the failure: task.Attempts >= 3
NotifiesUser(t) == t.Attempts >= RetryCeiling

(***************************************************************************)
(* The bot: handleStart, handleStop and handleVoice, with the tasks table  *)
(* and its unique index on (chat_id, telegram_message_id).                 *)
(***************************************************************************)
Chats == 1..NumChats
MessageIDs == 1..NumMessageIDs
Pairs == Chats \X MessageIDs
Handlers == 1..MaxSubmissions

\* The rows of the tasks table for one (chat, message id) pair.
RowsOf(table, pair) == {r \in table : r.pair = pair}

\* Mutant of UniqueViolation.
UniqueViolationNever(table, pair) == FALSE

\* idx_tasks_chat_message refuses a second row for the pair.
UniqueViolation(table, pair) == RowsOf(table, pair) # {}

\* PostgresStorage.CreateTask: the INSERT goes through when the database
\* answers and the unique index does not refuse the row.
CreateTaskSucceeds(table, pair, dbOk) == dbOk /\ ~UniqueViolation(table, pair)

(***************************************************************************)
(* Initial states. A specification runs one component; the others stay in  *)
(* a fixed state.                                                          *)
(***************************************************************************)
QuietCB ==
    /\ now = 0
    /\ cb = NewCircuitBreaker(1, 1)
    /\ pc = [c \in Callers |-> "idle"]
    /\ lastRet = "none"
    /\ calls = 0
    /\ invoked = 0
    /\ trial = None
    /\ consec = 0
    /\ maxConsec = 0
    /\ everOpen = FALSE
    /\ resets = 0

RetryStart(cfg, n) ==
    /\ config = cfg
    /\ failN = n
    /\ rpc = "loop"
    /\ attempt = 0
    /\ interval = cfg.InitialInterval
    /\ lastErr = Nil
    /\ ctxDone = FALSE
    /\ sleepLeft = 0
    /\ result = NoResult
    /\ fnCalls = 0
    /\ waits = <<>>
    /\ fnCallsAtCancel = 0
    /\ phaseAtCancel = "none"

QuietRetry ==
    RetryStart([MaxAttempts |-> 0, InitialInterval |-> 1, MaxInterval |-> 1,
                Multiplier |-> <<1, 1>>], 0)

Waiters == 1..NumWaiters

\* No Wait call has been made.
NoWaiters ==
    /\ wpc = [w \in Waiters |-> "idle"]
    /\ wctxDone = [w \in Waiters |-> FALSE]
    /\ deadline = [w \in Waiters |-> 0]
    /\ wret = [w \in Waiters |-> NoResult]
    /\ wtaken = [w \in Waiters |-> 0]
    /\ dryAtCancel = [w \in Waiters |-> FALSE]

QuietRL ==
    /\ rl = NewRateLimiter(1, 1, 0)
    /\ allowed = <<>>
    /\ NoWaiters

\* The bot has stored the task and published its message (handleVoice).
TaskPublished ==
    /\ stored = NewTask
    /\ transcriptRows = <<>>
    /\ recognizedText = ""
    /\ msg = "ready"
    /\ ppc = "idle"
    /\ task = NewTask
    /\ operations = 0
    /\ deliveries = 0
    /\ outcome = NoOutcome
    /\ notices = 0

QuietTask == TaskPublished /\ recognition = <<>> /\ present = TRUE

\* The bot has handled no update; no chat has sent /start.
BotStarted ==
    /\ active = {}
    /\ rows = {}
    /\ published = [h \in Handlers |-> 0]
    /\ hpc = [h \in Handlers |-> "new"]
    /\ hpair = [h \in Handlers |-> <<1, 1>>]
    /\ hret = [h \in Handlers |-> "none"]
    /\ submitted = 0

QuietBot == BotStarted

\* Consume has set the prefetch count and registered its consumer; the
\* queue holds the published messages.
ConsumeStarted ==
    /\ ready = [i \in 1..NumMessages |-> i]
    /\ unacked = {}
    /\ msgs = <<>>
    /\ cpc = "range"
    /\ cmsg = 0
    /\ herr = FALSE
    /\ handled = 0
    /\ decisions = <<>>

QuietConsume == ConsumeStarted

\* WaitForResult has taken startTime and is at the top of its loop.
PollStarted ==
    /\ opc = "check"
    /\ elapsed = 0
    /\ polls = 0
    /\ opret = "none"

QuietPoll == PollStarted

\* No worker instance has a delivery for the task yet.
Workers == 1..NumWorkers

DupStarted ==
    /\ wpos = [w \in Workers |-> "idle"]
    /\ wtask = [w \in Workers |-> NewTask]
    /\ wloaded = [w \in Workers |-> TaskStatusQueued]
    /\ wcycles = [w \in Workers |-> 0]
    /\ failedCycles = 0
    /\ overwritten = FALSE

QuietDup == DupStarted

InitRetry ==
    /\ QuietCB
    /\ QuietRL
    /\ QuietTask
    /\ QuietBot
    /\ QuietConsume
    /\ QuietPoll
    /\ QuietDup
    /\ \E cfg \in RetryConfigs, n \in 0..MaxAttemptsBound : RetryStart(cfg, n)

InitCB ==
    /\ now = 0
    /\ \E mf \in 1..MaxThreshold, to \in 1..MaxCooldown :
          cb = NewCircuitBreaker(mf, to)
    /\ pc = [c \in Callers |-> "idle"]
    /\ lastRet = "none"
    /\ calls = 0
    /\ invoked = 0
    /\ trial = None
    /\ consec = 0
    /\ maxConsec = 0
    /\ everOpen = FALSE
    /\ resets = 0
    /\ QuietRetry
    /\ QuietRL
    /\ QuietTask
    /\ QuietBot
    /\ QuietConsume
    /\ QuietPoll
    /\ QuietDup

InitRL ==
    /\ QuietCB
    /\ QuietRetry
    /\ QuietTask
    /\ QuietBot
    /\ QuietConsume
    /\ QuietPoll
    /\ QuietDup
    /\ \E rate \in 1..MaxRate, ival \in 1..MaxRefill :
          rl = NewRateLimiter(rate, ival, now)
    /\ allowed = <<>>
    /\ NoWaiters

InitTask ==
    /\ QuietCB
    /\ QuietRetry
    /\ QuietRL
    /\ TaskPublished
    /\ recognition \in SampleResults
    /\ present \in BOOLEAN
    /\ QuietBot
    /\ QuietConsume
    /\ QuietPoll
    /\ QuietDup

InitText ==
    /\ QuietCB
    /\ QuietRetry
    /\ QuietRL
    /\ TaskPublished
    /\ recognition \in Results
    /\ present = TRUE
    /\ QuietBot
    /\ QuietConsume
    /\ QuietPoll
    /\ QuietDup

InitBot ==
    /\ QuietCB
    /\ QuietRetry
    /\ QuietRL
    /\ QuietTask
    /\ BotStarted
    /\ QuietConsume
    /\ QuietPoll
    /\ QuietDup

InitConsume ==
    /\ QuietCB
    /\ QuietRetry
    /\ QuietRL
    /\ QuietTask
    /\ QuietBot
    /\ ConsumeStarted
    /\ QuietPoll
    /\ QuietDup

InitPoll ==
    /\ QuietCB
    /\ QuietRetry
    /\ QuietRL
    /\ QuietTask
    /\ QuietBot
    /\ QuietConsume
    /\ PollStarted
    /\ QuietDup

InitDup ==
    /\ QuietCB
    /\ QuietRetry
    /\ QuietRL
    /\ QuietTask
    /\ QuietBot
    /\ QuietConsume
    /\ QuietPoll
    /\ DupStarted

(***************************************************************************)
(* CircuitBreaker: the steps of Execute, Reset and the clock.              *)
(***************************************************************************)
\* Execute up to the call of fn: the first critical section, then either the
\* return of ErrCircuitOpen or the start of fn.
ExecuteEnter(c) ==
    /\ pc[c] = "idle"
    /\ calls < MaxCalls
    /\ calls' = calls + 1
    /\ cb' = AfterGate(cb, now)
    /\ IF Admitted(cb, now)
       THEN /\ pc' = [pc EXCEPT ![c] = "fn"]
            /\ invoked' = invoked + 1
            /\ trial' = IF cb.state = StateOpen THEN c ELSE trial
            /\ UNCHANGED lastRet
       ELSE /\ lastRet' = ErrCircuitOpen
            /\ UNCHANGED <<pc, invoked, trial>>
    /\ UNCHANGED <<now, consec, maxConsec, everOpen, resets, notCB>>

\* fn returns an error: the second critical section.
ExecuteFail(c) ==
    /\ pc[c] = "fn"
    /\ cb' = OnFailure(cb, now)
    /\ pc' = [pc EXCEPT ![c] = "idle"]
    /\ lastRet' = "err"
    /\ trial' = IF trial = c THEN None ELSE trial
    /\ consec' = consec + 1
    /\ maxConsec' = IF consec' > maxConsec THEN consec' ELSE maxConsec
    /\ everOpen' = (everOpen \/ cb'.state = StateOpen)
    /\ UNCHANGED <<now, calls, invoked, resets, notCB>>

\* fn returns nil: the second critical section.
ExecuteSucceed(c) ==
    /\ pc[c] = "fn"
    /\ cb' = OnSuccess(cb)
    /\ pc' = [pc EXCEPT ![c] = "idle"]
    /\ lastRet' = "nil"
    /\ trial' = IF trial = c THEN None ELSE trial
    /\ consec' = 0
    /\ UNCHANGED <<now, calls, invoked, maxConsec, everOpen, resets, notCB>>

Reset ==
    /\ resets < MaxResets
    /\ resets' = resets + 1
    /\ cb' = [cb EXCEPT !.state = StateClosed, !.failures = 0]
    /\ trial' = None
    /\ consec' = 0
    /\ UNCHANGED <<now, pc, lastRet, calls, invoked, maxConsec, everOpen,
                   notCB>>

Tick ==
    /\ now < MaxTime
    /\ now' = now + 1
    /\ UNCHANGED <<cbVars, retryVars, rlVars, taskVars, botVars, consumeVars,
                   pollVars, dupVars>>

NextCB ==
    \/ \E c \in Callers : ExecuteEnter(c)
    \/ \E c \in Callers : ExecuteFail(c)
    \/ \E c \in Callers : ExecuteSucceed(c)
    \/ Reset
    \/ Tick

(***************************************************************************)
(* RetryWithExponentialBackoff: the steps of one call.                     *)
(***************************************************************************)
\* The top of the loop: the loop condition, the check of ctx.Done() and the
\* call of fn. (A cancellation between the check and the call is one that
\* arrives while fn runs.)
RetryLoop ==
    /\ rpc = "loop"
    /\ IF ~LoopCondition(config, attempt)
       THEN /\ rpc' = "done"
            /\ result' = lastErr
            /\ UNCHANGED fnCalls
       ELSE IF ctxDone
       THEN /\ rpc' = "done"
            /\ result' = CtxErr
            /\ UNCHANGED fnCalls
       ELSE /\ rpc' = "fn"
            /\ fnCalls' = fnCalls + 1
            /\ UNCHANGED result
    /\ UNCHANGED <<config, failN, attempt, interval, lastErr, ctxDone,
                   sleepLeft, waits, fnCallsAtCancel, phaseAtCancel,
                   notRetry>>

\* fn returns: success ends the call, failure leads to the sleep or, after
\* the last attempt, straight to the next iteration.
RetryFnReturns ==
    /\ rpc = "fn"
    /\ lastErr' = FnOutcome(fnCalls)
    /\ IF lastErr' = Nil
       THEN /\ rpc' = "done"
            /\ result' = Nil
            /\ UNCHANGED <<attempt, sleepLeft, waits>>
       ELSE IF SleepCondition(config, attempt)
       THEN /\ rpc' = "sleep"
            /\ sleepLeft' = interval
            /\ waits' = Append(waits, interval)
            /\ UNCHANGED <<attempt, result>>
       ELSE /\ rpc' = "loop"
            /\ attempt' = attempt + 1
            /\ UNCHANGED <<result, sleepLeft, waits>>
    /\ UNCHANGED <<config, failN, interval, ctxDone, fnCalls, fnCallsAtCancel,
                   phaseAtCancel, notRetry>>

\* Time passes in time.Sleep(interval).
RetrySleeps ==
    /\ rpc = "sleep"
    /\ sleepLeft > 0
    /\ sleepLeft' = sleepLeft - 1
    /\ UNCHANGED <<config, failN, rpc, attempt, interval, lastErr, ctxDone,
                   result, fnCalls, waits, fnCallsAtCancel, phaseAtCancel,
                   notRetry>>

\* time.Sleep returns: the interval grows and the next iteration starts.
RetryWakes ==
    /\ rpc = "sleep"
    /\ sleepLeft = 0
    /\ interval' = NextInterval(config, interval)
    /\ attempt' = attempt + 1
    /\ rpc' = "loop"
    /\ UNCHANGED <<config, failN, lastErr, ctxDone, sleepLeft, result, fnCalls,
                   waits, fnCallsAtCancel, phaseAtCancel, notRetry>>

\* ctx is cancelled while the call is under way.
Cancel ==
    /\ rpc # "done"
    /\ ~ctxDone
    /\ ctxDone' = TRUE
    /\ fnCallsAtCancel' = fnCalls
    /\ phaseAtCancel' = rpc
    /\ UNCHANGED <<config, failN, rpc, attempt, interval, lastErr, sleepLeft,
                   result, fnCalls, waits, notRetry>>

NextRetry ==
    \/ RetryLoop
    \/ RetryFnReturns
    \/ RetrySleeps
    \/ RetryWakes
    \/ Cancel

(***************************************************************************)
(* RateLimiter: Allow, one critical section. `by` is who called: a waiter, *)
(* or Direct for a call from outside Wait.                                 *)
(***************************************************************************)
Direct == NumWaiters + 1

waitVars == <<wpc, wctxDone, deadline, wret, wtaken, dryAtCancel>>

AllowBy(who) ==
    /\ Len(allowed) < MaxAllows
    /\ rl' = AfterAllow(rl, now)
    /\ allowed' = Append(allowed, [t |-> now, ok |-> AllowResult(rl, now),
                                   by |-> who])

Allow ==
    /\ AllowBy(Direct)
    /\ UNCHANGED <<now, notRL, waitVars>>

(***************************************************************************)
(* RateLimiter.Wait. One iteration of its loop: Allow is called; when it   *)
(* returns true Wait returns nil; otherwise the select is entered, which   *)
(* returns ctx.Err() at once when ctx is already cancelled and blocks      *)
(* otherwise, with a timer set to fire one interval later.                 *)
(***************************************************************************)
WaitIteration(w) ==
    /\ AllowBy(w)
    /\ IF AllowResult(rl, now)
       THEN /\ wpc' = [wpc EXCEPT ![w] = "done"]
            /\ wret' = [wret EXCEPT ![w] = Nil]
            /\ wtaken' = [wtaken EXCEPT ![w] = @ + 1]
            /\ UNCHANGED deadline
       ELSE IF wctxDone[w]
       THEN /\ wpc' = [wpc EXCEPT ![w] = "done"]
            /\ wret' = [wret EXCEPT ![w] = CtxErr]
            /\ UNCHANGED <<wtaken, deadline>>
       ELSE /\ wpc' = [wpc EXCEPT ![w] = "select"]
            /\ deadline' = [deadline EXCEPT ![w] = now + rl.interval]
            /\ UNCHANGED <<wret, wtaken>>
    /\ UNCHANGED <<now, notRL, wctxDone, dryAtCancel>>

\* Wait is called: the first iteration of the loop.
WaitCall(w) ==
    /\ wpc[w] = "idle"
    /\ WaitIteration(w)

\* The iteration that follows the timer case of the select.
WaitRecheck(w) ==
    /\ wpc[w] = "allow"
    /\ WaitIteration(w)

\* The timer of the select fires while w is blocked in it: the select takes
\* the timer case and the loop goes round.
WaitTimer(w) ==
    /\ wpc[w] = "select"
    /\ now >= deadline[w]
    /\ wpc' = [wpc EXCEPT ![w] = "allow"]
    /\ UNCHANGED <<now, notRL, rl, allowed, wctxDone, deadline, wret, wtaken,
                   dryAtCancel>>

\* The ctx of w's Wait is cancelled. A waiter blocked in the select takes the
\* ctx.Done() case, unless its timer has fired before (WaitTimer).
CancelWait(w) ==
    /\ ~wctxDone[w]
    /\ wpc[w] # "done"
    /\ wctxDone' = [wctxDone EXCEPT ![w] = TRUE]
    /\ dryAtCancel' = [dryAtCancel EXCEPT ![w] =
                          wpc[w] \in {"select", "allow"}
                          /\ Refill(rl, now).tokens = 0]
    /\ IF wpc[w] = "select"
       THEN /\ wpc' = [wpc EXCEPT ![w] = "done"]
            /\ wret' = [wret EXCEPT ![w] = CtxErr]
       ELSE UNCHANGED <<wpc, wret>>
    /\ UNCHANGED <<now, notRL, rl, allowed, deadline, wtaken>>

NextRL ==
    \/ Allow
    \/ \E w \in Waiters : WaitCall(w)
    \/ \E w \in Waiters : WaitRecheck(w)
    \/ \E w \in Waiters : WaitTimer(w)
    \/ \E w \in Waiters : CancelWait(w)
    \/ Tick

(***************************************************************************)
(* The worker: RabbitMQ.Consume hands each delivery of the message to      *)
(* Processor.ProcessTask. A step is the code up to and including one       *)
(* statement on the database, or one call of an outside service; dbOk says *)
(* whether the statement went through, ok whether the service answered.    *)
(***************************************************************************)
\* The broker delivers the message (prefetch 1, manual acknowledgement).
Deliver ==
    /\ msg = "ready"
    /\ ppc = "idle"
    /\ deliveries < MaxDeliveries
    /\ deliveries' = deliveries + 1
    /\ msg' = "unacked"
    /\ ppc' = "load"
    /\ outcome' = NoOutcome
    /\ recognizedText' = ""
    /\ UNCHANGED <<stored, transcriptRows, recognition, task, operations,
                   notices, notTask>>

\* ProcessTask returned an error: Consume rejects the delivery and the broker
\* puts the message back in the queue.
Nack ==
    /\ msg' = "ready"
    /\ ppc' = "idle"

\* ProcessTask returned nil: Consume acknowledges the delivery.
Ack ==
    /\ msg' = "acked"
    /\ ppc' = "idle"

\* handleTaskError, and the return of the error to Consume.
HandleTaskError(errorMsg, dbOk) ==
    /\ task' = IncrementAttempts(SetError(task, errorMsg))
    /\ stored' = UpdateTask(stored, task', dbOk)
    /\ outcome' = [kind |-> "failed", reason |-> errorMsg,
                   before |-> outcome.before, persisted |-> dbOk,
                   sent |-> "none"]
    /\ notices' = IF NotifiesUser(task') THEN notices + 1 ELSE notices
    /\ Nack

GetTaskByID ==
    /\ ppc = "load"
    /\ \E dbOk \in BOOLEAN :
          IF dbOk /\ present
          THEN /\ task' = stored
               /\ ppc' = "mark"
               /\ outcome' = [outcome EXCEPT !.before = stored.Attempts]
               /\ UNCHANGED msg
          ELSE /\ Nack
               /\ outcome' = [outcome EXCEPT !.kind = "noload"]
               /\ UNCHANGED task
    /\ UNCHANGED <<stored, transcriptRows, recognition, recognizedText,
                   operations, deliveries, notices,
                   notTask>>

\* task.SetInProgress("") and UpdateTask
MarkInProgress ==
    /\ ppc = "mark"
    /\ task' = SetInProgress(task, EmptyOperationID)
    /\ \E dbOk \in BOOLEAN : stored' = UpdateTask(stored, task', dbOk)
    /\ ppc' = "download"
    /\ UNCHANGED <<transcriptRows, recognition, recognizedText, msg,
                   operations, deliveries, outcome, notices,
                   notTask>>

DownloadTelegramFile ==
    /\ ppc = "download"
    /\ \E ok \in BOOLEAN, dbOk \in BOOLEAN :
          IF ok
          THEN /\ ppc' = "upload"
               /\ UNCHANGED <<stored, msg, task, outcome, notices>>
          ELSE HandleTaskError("Failed to download file", dbOk)
    /\ UNCHANGED <<transcriptRows, recognition, recognizedText, operations,
                   deliveries, notTask>>

UploadFile ==
    /\ ppc = "upload"
    /\ \E ok \in BOOLEAN, dbOk \in BOOLEAN :
          IF ok
          THEN /\ ppc' = "start"
               /\ UNCHANGED <<stored, msg, task, outcome, notices>>
          ELSE HandleTaskError("Failed to upload to S3", dbOk)
    /\ UNCHANGED <<transcriptRows, recognition, recognizedText, operations,
                   deliveries, notTask>>

\* speechkit.StartRecognition, which answers with the id of a new operation,
\* then task.OperationID = &operationID and UpdateTask
StartRecognition ==
    /\ ppc = "start"
    /\ \E ok \in BOOLEAN, dbOk \in BOOLEAN :
          IF ok
          THEN /\ operations' = operations + 1
               /\ task' = [task EXCEPT
                             !.OperationID = OperationIDOf(operations')]
               /\ stored' = UpdateTask(stored, task', dbOk)
               /\ ppc' = "wait"
               /\ UNCHANGED <<msg, outcome, notices>>
          ELSE /\ HandleTaskError("Failed to start recognition", dbOk)
               /\ UNCHANGED operations
    /\ UNCHANGED <<transcriptRows, recognition, recognizedText, deliveries,
                   notTask>>

\* speechkit.WaitForResult and result.GetFullText(): the recognition fails,
\* or gives its result, whose text is empty or not.
WaitForResult ==
    /\ ppc = "wait"
    /\ \E ok \in BOOLEAN, dbOk \in BOOLEAN :
          IF ~ok
          THEN /\ HandleTaskError("Recognition failed", dbOk)
               /\ UNCHANGED recognizedText
          ELSE /\ recognizedText' = GetFullText(recognition)
               /\ IF recognizedText' = ""
                  THEN HandleTaskError("No text recognized", dbOk)
                  ELSE /\ ppc' = "transcript"
                       /\ UNCHANGED <<stored, msg, task, outcome, notices>>
    /\ UNCHANGED <<transcriptRows, recognition, operations, deliveries,
                   notTask>>

\* db.CreateTranscript: an INSERT of a row with a fresh id; its error is
\* logged and the cycle goes on.
CreateTranscript ==
    /\ ppc = "transcript"
    /\ \E dbOk \in BOOLEAN :
          transcriptRows' = IF dbOk THEN Append(transcriptRows, recognizedText)
                                    ELSE transcriptRows
    /\ ppc' = "complete"
    /\ UNCHANGED <<stored, recognition, recognizedText, msg, task, operations,
                   deliveries, outcome, notices,
                   notTask>>

\* task.SetCompleted() and UpdateTask
MarkCompleted ==
    /\ ppc = "complete"
    /\ task' = SetCompleted(task)
    /\ \E dbOk \in BOOLEAN :
          /\ stored' = UpdateTask(stored, task', dbOk)
          /\ outcome' = [outcome EXCEPT !.persisted = dbOk]
    /\ ppc' = "send"
    /\ UNCHANGED <<transcriptRows, recognition, recognizedText, msg,
                   operations, deliveries, notices, notTask>>

\* sendResultToUser, whose error is logged, and the return to Consume
SendResultToUser ==
    /\ ppc = "send"
    /\ \E ok \in BOOLEAN :
          /\ outcome' = [outcome EXCEPT !.kind = "done",
                                        !.sent = IF ok THEN "ok" ELSE "failed"]
          /\ IF ReturnedAfterSend(ok) = "nil" THEN Ack ELSE Nack
    /\ UNCHANGED <<stored, transcriptRows, recognition, recognizedText, task,
                   operations, deliveries, notices,
                   notTask>>

\* The worker process exits on a signal while ProcessTask runs: main does
\* not wait for the Consume goroutine. The delivery was not acknowledged, so
\* the broker delivers the message again to the worker started next.
Shutdown ==
    /\ ppc # "idle"
    /\ msg' = "ready"
    /\ ppc' = "idle"
    /\ outcome' = [outcome EXCEPT !.kind = "killed"]
    /\ UNCHANGED <<stored, transcriptRows, recognition, recognizedText, task,
                   operations, deliveries, notices,
                   notTask>>

NextTask ==
    \/ Deliver
    \/ GetTaskByID
    \/ MarkInProgress
    \/ DownloadTelegramFile
    \/ UploadFile
    \/ StartRecognition
    \/ WaitForResult
    \/ CreateTranscript
    \/ MarkCompleted
    \/ SendResultToUser
    \/ Shutdown

(***************************************************************************)
(* The bot's handlers. handleVoice is two steps, one up to the INSERT of   *)
(* the task and one for the publish call: telebot runs each handler in a   *)
(* goroutine of its own, so calls of handleVoice can overlap.              *)
(***************************************************************************)
\* /start: the chat's key is written to the cache; an error is logged.
HandleStart(chat) ==
    /\ \E cacheOk \in BOOLEAN :
          active' = IF cacheOk THEN active \cup {chat} ELSE active
    /\ UNCHANGED <<rows, published, hpc, hpair, hret, submitted, notBot>>

\* /stop: the chat's key is deleted from the cache; an error is logged.
HandleStop(chat) ==
    /\ \E cacheOk \in BOOLEAN :
          active' = IF cacheOk THEN active \ {chat} ELSE active
    /\ UNCHANGED <<rows, published, hpc, hpair, hret, submitted, notBot>>

\* A voice update for (chat, m) arrives: isActive, the reply and CreateTask
\* with a fresh uuid (the number of the call).
HandleVoice(chat, m) ==
    /\ submitted < MaxSubmissions
    /\ submitted' = submitted + 1
    /\ hpair' = [hpair EXCEPT ![submitted'] = <<chat, m>>]
    /\ \E cacheOk \in BOOLEAN, dbOk \in BOOLEAN :
          IF ~(cacheOk /\ chat \in active)
          THEN /\ hpc' = [hpc EXCEPT ![submitted'] = "done"]
               /\ hret' = [hret EXCEPT ![submitted'] = "ignored"]
               /\ UNCHANGED rows
          ELSE IF CreateTaskSucceeds(rows, <<chat, m>>, dbOk)
          THEN /\ rows' = rows \cup {[id |-> submitted', pair |-> <<chat, m>>]}
               /\ hpc' = [hpc EXCEPT ![submitted'] = "publish"]
               /\ UNCHANGED hret
          ELSE /\ hpc' = [hpc EXCEPT ![submitted'] = "done"]
               /\ hret' = [hret EXCEPT ![submitted'] = "not stored"]
               /\ UNCHANGED rows
    /\ UNCHANGED <<active, published, notBot>>

\* b.q.PublishTask for the task the call has stored, and the return.
PublishTask(h) ==
    /\ hpc[h] = "publish"
    /\ \E ok \in BOOLEAN :
          /\ published' = IF ok THEN [published EXCEPT ![h] = @ + 1]
                                ELSE published
          /\ hret' = [hret EXCEPT ![h] = IF ok THEN "published"
                                               ELSE "not published"]
    /\ hpc' = [hpc EXCEPT ![h] = "done"]
    /\ UNCHANGED <<active, rows, hpair, submitted, notBot>>

NextBot ==
    \/ \E chat \in Chats : HandleStart(chat)
    \/ \E chat \in Chats : HandleStop(chat)
    \/ \E chat \in Chats, m \in MessageIDs : HandleVoice(chat, m)
    \/ \E h \in Handlers : PublishTask(h)

(***************************************************************************)
(* RabbitMQ.Consume: the broker pushes deliveries into the channel msgs    *)
(* while fewer than the prefetch count are unsettled, and the loop of      *)
(* Consume reads them one at a time, calls the handler and settles the     *)
(* delivery. The handler is the function given to Consume: here it only    *)
(* returns an error or nil.                                                *)
(***************************************************************************)
\* The broker sends the message at the head of the queue to the consumer.
BrokerDeliver ==
    /\ cpc # "exited"
    /\ ready # <<>>
    /\ Cardinality(unacked) < PrefetchCount
    /\ msgs' = Append(msgs, Head(ready))
    /\ unacked' = unacked \cup {Head(ready)}
    /\ ready' = Tail(ready)
    /\ UNCHANGED <<cpc, cmsg, herr, handled, decisions, notConsume>>

\* for msg := range msgs, and the call handler(msg.Body).
Receive ==
    /\ cpc = "range"
    /\ msgs # <<>>
    /\ handled < MaxHandled
    /\ cmsg' = Head(msgs)
    /\ msgs' = Tail(msgs)
    /\ handled' = handled + 1
    /\ cpc' = "handler"
    /\ UNCHANGED <<ready, unacked, herr, decisions, notConsume>>

\* The handler returns.
HandlerReturns(err) ==
    /\ cpc = "handler"
    /\ herr' = err
    /\ cpc' = "returned"
    /\ UNCHANGED <<ready, unacked, msgs, cmsg, handled, decisions, notConsume>>

\* msg.Nack(false, true) or msg.Ack(false): a rejected message goes back to
\* the queue, at the place it was taken from.
Settle ==
    /\ cpc = "returned"
    /\ decisions' = Append(decisions,
                           [msg |-> cmsg, call |-> handled, err |-> herr,
                            decision |-> Decision(herr)])
    /\ unacked' = unacked \ {cmsg}
    /\ ready' = IF Decision(herr) = "nack requeue" THEN <<cmsg>> \o ready
                                                    ELSE ready
    /\ cpc' = "range"
    /\ UNCHANGED <<msgs, cmsg, herr, handled, notConsume>>

\* The process exits: the connection closes and the broker puts the
\* unsettled deliveries back into the queue.
ConsumerExit ==
    /\ cpc # "exited"
    /\ cpc' = "exited"
    /\ ready' = msgs \o (IF cpc \in {"handler", "returned"} THEN <<cmsg>>
                                                             ELSE <<>>)
                     \o ready
    /\ unacked' = {}
    /\ msgs' = <<>>
    /\ UNCHANGED <<cmsg, herr, handled, decisions, notConsume>>

NextConsume ==
    \/ BrokerDeliver
    \/ Receive
    \/ \E err \in BOOLEAN : HandlerReturns(err)
    \/ Settle
    \/ ConsumerExit

(***************************************************************************)
(* speechkit.Client.WaitForResult: the loop that polls the operation.      *)
(***************************************************************************)
\* The top of the loop: the check of the time waited so far.
PollCheck ==
    /\ opc = "check"
    /\ IF TimeoutExceeded(elapsed)
       THEN /\ opc' = "returned"
            /\ opret' = "recognition timeout exceeded"
       ELSE /\ opc' = "request"
            /\ UNCHANGED opret
    /\ UNCHANGED <<elapsed, polls, notPoll>>

\* The GET request and what is done with the answer. A request that takes
\* the client's timeout fails; one that is answered finds a failed status
\* check, the operation done with an error, done with a response, or not
\* done yet.
PollRequest(d, answer) ==
    /\ opc = "request"
    /\ d = RequestTimeout => answer = "failed"
    /\ polls' = polls + 1
    /\ elapsed' = elapsed + d
    /\ IF answer = "pending"
       THEN /\ opc' = "sleep"
            /\ UNCHANGED opret
       ELSE /\ opc' = "returned"
            /\ opret' = answer
    /\ UNCHANGED notPoll

\* time.Sleep(OperationPoll)
PollSleep ==
    /\ opc = "sleep"
    /\ elapsed' = elapsed + OperationPoll
    /\ opc' = "check"
    /\ UNCHANGED <<polls, opret, notPoll>>

NextPoll ==
    \/ PollCheck
    \/ \E d \in RequestTimes, answer \in {"failed", "error", "result", "pending"} :
          PollRequest(d, answer)
    \/ PollSleep

(***************************************************************************)
(* Processing cycles of several worker instances for the same task: each   *)
(* instance runs ProcessTask on the task it loaded, and every UpdateTask   *)
(* writes the whole row from that copy. Here every statement goes through. *)
(***************************************************************************)
\* UpdateTask by instance w with its task t.
CycleUpdate(w, t) ==
    /\ stored' = UpdateTask(stored, t, TRUE)
    /\ overwritten' = (overwritten
                        \/ (/\ stored.Status = TaskStatusDone
                            /\ t.Status # TaskStatusDone
                            /\ wloaded[w] # TaskStatusDone))

\* A delivery of the task's message reaches instance w.
CycleDeliver(w) ==
    /\ wpos[w] = "idle"
    /\ wcycles[w] < MaxCycles
    /\ wcycles' = [wcycles EXCEPT ![w] = @ + 1]
    /\ wpos' = [wpos EXCEPT ![w] = "load"]
    /\ UNCHANGED <<stored, wtask, wloaded, failedCycles, overwritten, notDup>>

\* db.GetTaskByID
CycleLoad(w) ==
    /\ wpos[w] = "load"
    /\ wtask' = [wtask EXCEPT ![w] = stored]
    /\ wloaded' = [wloaded EXCEPT ![w] = stored.Status]
    /\ wpos' = [wpos EXCEPT ![w] = "mark"]
    /\ UNCHANGED <<stored, wcycles, failedCycles, overwritten, notDup>>

\* task.SetInProgress("") and UpdateTask
CycleMark(w) ==
    /\ wpos[w] = "mark"
    /\ wtask' = [wtask EXCEPT ![w] = SetInProgress(@, EmptyOperationID)]
    /\ CycleUpdate(w, wtask'[w])
    /\ wpos' = [wpos EXCEPT ![w] = "start"]
    /\ UNCHANGED <<wloaded, wcycles, failedCycles, notDup>>

\* StartRecognition went through: the operation id is stored.
CycleStart(w) ==
    /\ wpos[w] = "start"
    /\ wtask' = [wtask EXCEPT ![w].OperationID = OperationIDOf(wcycles[w])]
    /\ CycleUpdate(w, wtask'[w])
    /\ wpos' = [wpos EXCEPT ![w] = "wait"]
    /\ UNCHANGED <<wloaded, wcycles, failedCycles, notDup>>

\* An outside call of the cycle failed: handleTaskError.
CycleFails(w) ==
    /\ wpos[w] \in {"start", "wait"}
    /\ wtask' = [wtask EXCEPT ![w] = IncrementAttempts(SetError(@, "failed"))]
    /\ CycleUpdate(w, wtask'[w])
    /\ failedCycles' = failedCycles + 1
    /\ wpos' = [wpos EXCEPT ![w] = "idle"]
    /\ UNCHANGED <<wloaded, wcycles, notDup>>

\* The recognition gave its text: task.SetCompleted() and UpdateTask.
CycleCompletes(w) ==
    /\ wpos[w] = "wait"
    /\ wtask' = [wtask EXCEPT ![w] = SetCompleted(@)]
    /\ CycleUpdate(w, wtask'[w])
    /\ wpos' = [wpos EXCEPT ![w] = "idle"]
    /\ UNCHANGED <<wloaded, wcycles, failedCycles, notDup>>

NextDup ==
    \/ \E w \in Workers : CycleDeliver(w)
    \/ \E w \in Workers : CycleLoad(w)
    \/ \E w \in Workers : CycleMark(w)
    \/ \E w \in Workers : CycleStart(w)
    \/ \E w \in Workers : CycleFails(w)
    \/ \E w \in Workers : CycleCompletes(w)

(***************************************************************************)
(* Specifications                                                          *)
(***************************************************************************)
SpecCB == InitCB /\ [][NextCB]_vars

SpecRetry == InitRetry /\ [][NextRetry]_vars

SpecRL == InitRL /\ [][NextRL]_vars

SpecTask == InitTask /\ [][NextTask]_vars

SpecBot == InitBot /\ [][NextBot]_vars

SpecConsume == InitConsume /\ [][NextConsume]_vars

SpecPoll == InitPoll /\ [][NextPoll]_vars

SpecDup == InitDup /\ [][NextDup]_vars

\* The goroutine of WaitForResult is scheduled, its requests end within the
\* timeout of the http client and its sleeps return.
FairPoll == InitPoll /\ [][NextPoll]_vars /\ WF_vars(NextPoll)

\* The first deliveries of a task, for every recognition result.
NextText ==
    \/ (deliveries < TextDeliveries /\ Deliver)
    \/ GetTaskByID
    \/ MarkInProgress
    \/ DownloadTelegramFile
    \/ UploadFile
    \/ StartRecognition
    \/ WaitForResult
    \/ CreateTranscript
    \/ MarkCompleted
    \/ SendResultToUser
    \/ Shutdown

SpecText == InitText /\ [][NextText]_vars

(***************************************************************************)
(* Steps of Execute, as seen in the history variables.                     *)
(***************************************************************************)
\* An Execute call is made in this step.
CallMade == calls' = calls + 1

\* A call's fn returned an error in this step.
FailureReturned == consec' = consec + 1

\* Caller c's call returned from fn in this step.
Returned(c) == pc[c] = "fn" /\ pc'[c] = "idle"

\* The trial call is in flight.
TrialInFlight == trial # None /\ pc[trial] = "fn"

\* The cooldown has not elapsed since the last failure.
WithinCooldown == Since(cb, now) < cb.timeout

(***************************************************************************)
(* C1: for every maxFailures >= 1, the maxFailures-th consecutive failing  *)
(* Execute call on a Closed breaker leaves GetState = Open; an Open        *)
(* breaker stays Open while the cooldown has not elapsed since the last    *)
(* failure (Reset aside), and every Execute call made then returns         *)
(* ErrCircuitOpen without invoking the wrapped function.                   *)
(***************************************************************************)
C1_OpensAndFailsFast ==
    [][ /\ (cb.maxFailures >= 1 /\ cb.state = StateClosed /\ FailureReturned
              /\ consec' >= cb.maxFailures)
            => GetState' = StateOpen
        /\ (cb.state = StateOpen /\ WithinCooldown /\ resets' = resets)
            => GetState' = StateOpen
        /\ (cb.state = StateOpen /\ WithinCooldown /\ CallMade)
            => /\ lastRet' = ErrCircuitOpen
               /\ invoked' = invoked
               /\ pc' = pc
      ]_vars

\* C1's case: the breaker opened by maxFailures consecutive failures of as
\* many invocations, and a call made within the cooldown was turned away.
C1_Witness ==
    /\ cb.state = StateOpen
    /\ cb.maxFailures = MaxThreshold
    /\ consec = cb.maxFailures
    /\ invoked = cb.maxFailures
    /\ calls = invoked + 1
    /\ lastRet = ErrCircuitOpen
    /\ resets = 0

(***************************************************************************)
(* C2: once the cooldown has elapsed on an Open breaker exactly one call   *)
(* is let through as a trial: while the trial call is in flight no other   *)
(* caller's wrapped function is invoked.                                   *)
(***************************************************************************)
C2_SingleTrial == [][TrialInFlight => invoked' = invoked]_vars

(***************************************************************************)
(* C3: for every maxFailures >= 1, when the trial call fails the breaker   *)
(* is Open again right after that call, with the cooldown measured from    *)
(* that failure.                                                           *)
(***************************************************************************)
C3_FailedTrialReopens ==
    [][ (cb.maxFailures >= 1 /\ TrialInFlight /\ Returned(trial)
           /\ FailureReturned)
        => (GetState' = StateOpen /\ cb'.lastFailTime = now') ]_vars

(***************************************************************************)
(* C4: when the trial call succeeds, Execute returns nil, the state        *)
(* becomes Closed and the failure count is zero.                           *)
(***************************************************************************)
C4_TrialSuccessCloses ==
    [][ (TrialInFlight /\ Returned(trial) /\ ~FailureReturned)
        => (lastRet' = "nil" /\ GetState' = StateClosed /\ cb'.failures = 0)
      ]_vars

(***************************************************************************)
(* C5: a successful call while Closed resets the failure count to zero,    *)
(* and only consecutive failures count: a breaker that has been Open has   *)
(* seen at least maxFailures failures with no success between them.        *)
(***************************************************************************)
C5_OnlyConsecutiveFailuresCount ==
    [][ /\ (cb.state = StateClosed /\ lastRet' = "nil"
              /\ \E c \in Callers : Returned(c))
            => cb'.failures = 0
        /\ everOpen' => maxConsec' >= cb'.maxFailures
      ]_vars

\* C5's case: failures on both sides of a success, as many as maxFailures in
\* all, and the breaker has never been Open.
C5_Witness ==
    /\ ~everOpen
    /\ resets = 0
    /\ cb.maxFailures = 2
    /\ cb.failures = 1
    /\ consec = 1
    /\ invoked = 3
    /\ calls = 3
    /\ \A c \in Callers : pc[c] = "idle"

(***************************************************************************)
(* C6: for a function that fails exactly N times and then succeeds and     *)
(* any maxAttempts > N, a call whose context is never cancelled returns    *)
(* nil and has invoked the function exactly N+1 times.                     *)
(***************************************************************************)
C6_SucceedsAfterNFailures ==
    (rpc = "done" /\ ~ctxDone /\ config.MaxAttempts > failN)
        => (result = Nil /\ fnCalls = failN + 1)

\* C6's case: two failures, then success at the third and last attempt.
C6_Witness ==
    /\ rpc = "done"
    /\ ~ctxDone
    /\ failN = 2
    /\ config.MaxAttempts = 3
    /\ result = Nil
    /\ fnCalls = 3

(***************************************************************************)
(* C7: for a function that fails at least N times and 1 <= maxAttempts     *)
(* <= N, a call whose context is never cancelled returns the error of the  *)
(* last invocation, has invoked the function exactly maxAttempts times     *)
(* and has slept only between attempts, never after the last one.          *)
(***************************************************************************)
C7_ExhaustsAttempts ==
    (~ctxDone /\ 1 <= config.MaxAttempts /\ config.MaxAttempts <= failN)
        => /\ rpc = "done"
                => /\ result = FnErr(config.MaxAttempts)
                   /\ fnCalls = config.MaxAttempts
                   /\ Len(waits) = config.MaxAttempts - 1
           /\ rpc = "sleep" => fnCalls < config.MaxAttempts
           /\ Len(waits) < config.MaxAttempts

\* C7's case: three attempts, all failed, two sleeps.
C7_Witness ==
    /\ rpc = "done"
    /\ ~ctxDone
    /\ failN = 3
    /\ config.MaxAttempts = 3
    /\ result = FnErr(3)
    /\ fnCalls = 3
    /\ Len(waits) = 2

\* The attempts that had been completed when ctx was cancelled.
AttemptsAtCancel ==
    IF phaseAtCancel = "fn" THEN fnCallsAtCancel - 1 ELSE fnCallsAtCancel

(***************************************************************************)
(* C8: when the cancellation fires before all maxAttempts attempts are     *)
(* exhausted (during a wait or while an attempt runs), the call never      *)
(* returns the wrapped function's error and the function is not invoked    *)
(* again after the cancellation.                                           *)
(***************************************************************************)
C8_CancellationHonoured ==
    (rpc = "done" /\ ctxDone /\ AttemptsAtCancel < config.MaxAttempts)
        => (result[1] # "fnErr" /\ fnCalls = fnCallsAtCancel)

(***************************************************************************)
(* C9: a backoff wait in progress is interruptible: when the cancellation  *)
(* arrives during the wait, the next step of the call is the return of the *)
(* cancellation reason, not the rest of the interval.                      *)
(***************************************************************************)
C9_WaitInterruptible ==
    [][ (rpc = "sleep" /\ ctxDone /\ phaseAtCancel = "sleep" /\ sleepLeft > 0)
        => (rpc' = "done" /\ result' = CtxErr) ]_vars

(***************************************************************************)
(* C10: on a fresh limiter of capacity C >= 1 and interval T the first C   *)
(* immediate Allow calls return true and every further immediate call      *)
(* returns false; an Allow call that follows a refused call by at least T  *)
(* returns true. (The limiter is built at time 0: a call is immediate     *)
(* when less than one interval has passed since.)                          *)
(***************************************************************************)
C10_BurstThenRefill ==
    rl.rate >= 1 =>
        /\ \A i \in DOMAIN allowed :
              allowed[i].t < rl.interval => (allowed[i].ok <=> i <= rl.rate)
        /\ \A i \in DOMAIN allowed :
              (i > 1 /\ ~allowed[i - 1].ok
                 /\ allowed[i].t - allowed[i - 1].t >= rl.interval)
              => allowed[i].ok

\* C10's case: capacity 2, three immediate calls, then one an interval later.
C10_Witness ==
    /\ rl.rate = 2
    /\ Len(allowed) = 4
    /\ \A i \in 1..3 : allowed[i].t = 0
    /\ allowed[1].ok /\ allowed[2].ok /\ ~allowed[3].ok
    /\ allowed[4].t >= rl.interval
    /\ allowed[4].ok

(***************************************************************************)
(* The Allow calls of a behaviour that returned true, direct ones and the  *)
(* ones made inside Wait.                                                  *)
(***************************************************************************)
Granted == {i \in DOMAIN allowed : allowed[i].ok}

(***************************************************************************)
(* C11: whatever the interleaving of Allow calls, Wait calls and the       *)
(* passage of time, the token count stays within 0..rate, and no token is  *)
(* spent twice: the calls that returned true and the tokens still in the   *)
(* bucket together never exceed the initial rate tokens plus one token per *)
(* interval elapsed since the limiter was built (at time 0); a Wait that   *)
(* returned nil consumed exactly one token.                                *)
(***************************************************************************)
C11_TokensConserved ==
    /\ rl.tokens \in 0..rl.rate
    /\ Cardinality(Granted) + rl.tokens <= rl.rate + (now \div rl.interval)
    /\ \A w \in Waiters : wret[w] = Nil => wtaken[w] = 1
    /\ \A w \in Waiters :
          wtaken[w] = Cardinality({i \in Granted : allowed[i].by = w})

\* C11's case: a direct Allow and a Wait have both taken a token, a call has
\* been refused on the empty bucket, and a refill has been granted since.
C11_Witness ==
    /\ \E w \in Waiters : wret[w] = Nil
    /\ \E i \in Granted : allowed[i].by = Direct
    /\ \E i \in DOMAIN allowed : ~allowed[i].ok
    /\ Cardinality(Granted) > rl.rate
    /\ rl.tokens = 0

(***************************************************************************)
(* C12: the bucket is replenished at rate tokens per interval: when an     *)
(* Allow call finds the bucket drained and at least one full interval has  *)
(* elapsed since the call before it (the bucket was drained no later than  *)
(* that call), rate acquisitions are possible again: the call returns true *)
(* and leaves rate - 1 tokens.                                             *)
(***************************************************************************)
C12_RatePerInterval ==
    [][ ( /\ Len(allowed') = Len(allowed) + 1
          /\ Len(allowed) > 0
          /\ rl.tokens = 0
          /\ now - allowed[Len(allowed)].t >= rl.interval )
        => ( /\ allowed'[Len(allowed')].ok
             /\ rl'.tokens = rl.rate - 1 ) ]_vars

(***************************************************************************)
(* C13: Wait returns nil only after it has consumed a token; and when its  *)
(* ctx is cancelled during the call while no token is available, it        *)
(* returns the cancellation reason and consumes no token.                  *)
(***************************************************************************)
C13_WaitCancellation ==
    \A w \in Waiters :
        /\ wret[w] = Nil => wtaken[w] = 1
        /\ (dryAtCancel[w] /\ wpc[w] = "done")
              => (wret[w] = CtxErr /\ wtaken[w] = 0)

(***************************************************************************)
(* C14: errorText is present only while the status is Failed: in every     *)
(* reachable state of the stored task, status Done implies that errorText  *)
(* is unset, also when an earlier cycle of the task failed.                *)
(***************************************************************************)
C14_DoneHasNoErrorText ==
    stored.Status = TaskStatusDone => stored.ErrorText = NilText

(***************************************************************************)
(* The Task a failed cycle leaves: Failed, with the reason of the cycle    *)
(* and one attempt more than the cycle loaded.                             *)
(***************************************************************************)
FailureRecordedIn(t) ==
    /\ t.Status = TaskStatusFailed
    /\ t.ErrorText = TextOf(outcome.reason)
    /\ t.Attempts = outcome.before + 1

C16_TranscriptImpliesDone ==
    transcripts > 0 => stored.Status = TaskStatusDone

(***************************************************************************)
(* C17: the task is marked Done only after its Transcript is stored: in    *)
(* every reachable state, stored status Done implies that a Transcript row *)
(* of the task exists, also when the insert of the transcript failed.      *)
(***************************************************************************)
C17_DoneImpliesTranscript ==
    stored.Status = TaskStatusDone => transcripts > 0

(***************************************************************************)
(* C18: there is at most one Transcript row of the task in every reachable *)
(* state, however often the message of the task is delivered.              *)
(***************************************************************************)
C18_AtMostOneTranscript == transcripts <= 1

(***************************************************************************)
(* C19: operationId is set at most once per task: once the stored task     *)
(* holds the id of a recognition operation, no step of any later cycle     *)
(* replaces it by a different value.                                       *)
(***************************************************************************)
C19_OperationIDSetOnce ==
    [][ (stored.OperationID \notin {NilString, EmptyOperationID})
        => stored'.OperationID = stored.OperationID ]_vars

(***************************************************************************)
(* C20: retries are bounded by the ceiling of 3: attempts never exceeds 3, *)
(* and once the stored task is Failed with attempts = 3 no later delivery  *)
(* changes its status or its attempts.                                     *)
(***************************************************************************)
C20_RetryCeiling ==
    [][ /\ stored'.Attempts <= RetryCeiling
        /\ (stored.Status = TaskStatusFailed /\ ~CanRetry(stored))
              => ( /\ stored'.Status = TaskStatusFailed
                   /\ stored'.Attempts = stored.Attempts ) ]_vars

(***************************************************************************)
(* C21: the user is told of the failure only once the retry ceiling is     *)
(* exhausted: a failed cycle that leaves attempts below 3 sends no         *)
(* notification, and the cycle in which attempts reaches 3 sends it.       *)
(* attempts is the count of the cycle: what it loaded, plus one.           *)
(***************************************************************************)
C21_NotifiedAtCeilingOnly ==
    [][ (outcome'.kind = "failed" /\ outcome.kind = "none")
        => /\ outcome.before + 1 < RetryCeiling => notices' = notices
           /\ outcome.before + 1 = RetryCeiling => notices' = notices + 1
      ]_vars

\* C21's case: two silent failed cycles, then the third one notifies.
C21_Witness ==
    /\ outcome.kind = "failed"
    /\ outcome.before = 2
    /\ stored.Attempts = RetryCeiling
    /\ notices = 1

(***************************************************************************)
(* C22: idempotent ingress. After any sequence of voice submissions the    *)
(* tasks table holds exactly one row per distinct (chat, message id) pair: *)
(* never two rows for a pair, and one row for every pair for which a call  *)
(* of CreateTask has succeeded, however often the pair was submitted.      *)
(***************************************************************************)
C22_OneTaskPerPair ==
    /\ \A pair \in Pairs : Cardinality(RowsOf(rows, pair)) <= 1
    /\ \A h \in Handlers :
          hpc[h] = "publish" \/ hret[h] \in {"published", "not published"}
             => Cardinality(RowsOf(rows, hpair[h])) = 1

\* C22's case: the same pair is submitted twice from an active chat; the
\* first call stored the task, the second was refused.
C22_Witness ==
    /\ hpair[1] = hpair[2]
    /\ hret[1] = "published"
    /\ hret[2] = "not stored"
    /\ Cardinality(RowsOf(rows, hpair[1])) = 1

(***************************************************************************)
(* C23: a task is enqueued exactly once per (chat, message id) pair: for   *)
(* every pair that has a row in the tasks table, once the call that stored *)
(* it has returned, exactly one queue message for that task has been       *)
(* published, whatever the publish call returned.                          *)
(***************************************************************************)
C23_EnqueuedExactlyOnce ==
    \A r \in rows : hpc[r.id] = "done" => published[r.id] = 1

\* A result is a sequence of segments with one text each when each of its
\* chunks has one alternative; SegmentTexts is then the texts in order.
OneTextPerSegment(chunks) == \A i \in DOMAIN chunks : Len(chunks[i]) = 1

SegmentTexts(chunks) == [i \in DOMAIN chunks |-> chunks[i][1]]

\* Each text followed by one space, in order, built from the last text back.
RECURSIVE EachFollowedBySpace(_)
EachFollowedBySpace(texts) ==
    IF texts = <<>> THEN ""
    ELSE EachFollowedBySpace(SubSeq(texts, 1, Len(texts) - 1))
         \o texts[Len(texts)] \o " "

\* C24: when a cycle of a queued task gets through fetch, upload and
\* recognition and ends in success, the text of the transcript it stored is
\* the texts of the segments in order, each followed by one space
\* (<<"hello", "world">> gives "hello world "), and the task it stored is Done.
C24_TranscriptTextEndToEnd ==
    (outcome.kind = "done" /\ OneTextPerSegment(recognition))
        => /\ \A i \in DOMAIN transcriptRows :
                 transcriptRows[i] = EachFollowedBySpace(SegmentTexts(recognition))
           /\ outcome.persisted => /\ stored.Status = TaskStatusDone
                                   /\ stored.Attempts = outcome.before

C24_Witness ==
    /\ outcome.kind = "done"
    /\ recognition = <<(<<"hello">>), (<<"world">>)>>
    /\ transcriptRows = <<"hello world ">>
    /\ stored.Status = TaskStatusDone

\* C25: Consume settles every delivery it gave to the handler exactly once
\* before it gives the next one to the handler (the k-th Ack or Nack call is
\* for the k-th call of the handler and its message), with ack when the
\* handler returned nil and nack with requeue when it returned an error, and
\* the consumer never has more than one unsettled delivery.
C25_OneDecisionPerDelivery ==
    /\ Cardinality(unacked) <= PrefetchCount
    /\ Len(decisions) = IF cpc \in {"handler", "returned"} THEN handled - 1
                        ELSE IF cpc = "range" THEN handled
                        ELSE Len(decisions)
    /\ Len(decisions) \in {handled - 1, handled}
    /\ \A k \in DOMAIN decisions :
          /\ decisions[k].call = k
          /\ decisions[k].decision = IF decisions[k].err THEN "nack requeue"
                                                         ELSE "ack"
    /\ cpc \in {"handler", "returned"} => unacked = {cmsg}

C25_Witness ==
    /\ Len(decisions) = 3
    /\ decisions[1].decision = "nack requeue"
    /\ decisions[2].msg = decisions[1].msg
    /\ decisions[2].decision = "ack"
    /\ decisions[3].msg # decisions[1].msg
    /\ cpc = "range"

\* C26: when sending the text to the user fails at the end of a cycle, the
\* stored task is left as it is (Done once the last update went through,
\* attempts and errorText as they were) and ProcessTask returns nil, so the
\* message is acknowledged.
C26_DeliveryFailureKeepsDone ==
    [][ (ppc = "send" /\ outcome'.sent = "failed")
        => /\ stored' = stored
           /\ task' = task
           /\ outcome.persisted => stored'.Status = TaskStatusDone
           /\ outcome'.kind = "done"
           /\ msg' = "acked"
      ]_vars

C26_Witness ==
    /\ outcome.kind = "done"
    /\ outcome.sent = "failed"
    /\ stored.Status = TaskStatusDone
    /\ stored.Attempts = 0
    /\ stored.ErrorText = NilText
    /\ msg = "acked"

(***************************************************************************)
(* C27: once the stored task is Done, a delivery of its message leaves the *)
(* status Done, starts no recognition and writes no transcript row.        *)
(***************************************************************************)
C27_DoneTaskNotReprocessed ==
    [][ stored.Status = TaskStatusDone
        => /\ stored'.Status = TaskStatusDone
           /\ operations' = operations
           /\ transcriptRows' = transcriptRows
      ]_vars

(***************************************************************************)
(* C28: a message that names a task the tasks table does not have is not   *)
(* retried: its cycle fails, the store is as it was, and the message is    *)
(* not back in the queue for another delivery.                             *)
(***************************************************************************)
C28_AbsentTaskNotRetried ==
    (~present /\ outcome.kind = "noload")
        => /\ stored = NewTask
           /\ transcriptRows = <<>>
           /\ msg # "ready"

(***************************************************************************)
(* C29: in every cycle the store holds status InProgress for the task      *)
(* before the audio fetch and the external calls after it begin, also when *)
(* the update at pickup returned an error.                                 *)
(***************************************************************************)
C29_InProgressBeforeExternalCalls ==
    ppc \in {"download", "upload", "start", "wait"}
        => stored.Status = TaskStatusInProgress

(***************************************************************************)
(* C30: the cycle's call of StartRecognition goes through the circuit      *)
(* breaker or the rate limiter: the step that makes the call is a call of  *)
(* Execute or takes a token (so an Open breaker or an empty bucket can     *)
(* keep the call from being made).                                         *)
(***************************************************************************)
C30_StartRecognitionGuarded ==
    [][ (ppc = "start" /\ outcome'.kind # "killed")
        => \/ calls' > calls
           \/ Len(allowed') > Len(allowed)
           \/ cbVars' # cbVars
           \/ rlVars' # rlVars
      ]_vars

(***************************************************************************)
(* C31: when the worker has shut down, every delivery that was given to    *)
(* the handler has had its Ack or Nack call: none is left without a        *)
(* decision.                                                               *)
(***************************************************************************)
C31_ShutdownSettlesDelivery ==
    cpc = "exited" => Len(decisions) = handled

\* The result has no text: no chunks, chunks without alternatives, or only
\* alternatives whose text is empty.
YieldsNoText(chunks) ==
    \A i \in DOMAIN chunks : \A j \in DOMAIN chunks[i] : chunks[i][j] = ""

(***************************************************************************)
(* C32: when the recognition result has no text, no cycle ends in success, *)
(* no transcript row is written and the task is never stored as Done.      *)
(***************************************************************************)
C32_EmptyResultIsFailure ==
    YieldsNoText(recognition)
        => /\ outcome.kind # "done"
           /\ transcriptRows = <<>>
           /\ stored.Status # TaskStatusDone

\* The texts joined by a single space: one separator between two texts that
\* follow each other, none after the last.
RECURSIVE JoinedBySpace(_)
JoinedBySpace(texts) ==
    IF texts = <<>> THEN ""
    ELSE IF Len(texts) = 1 THEN texts[1]
    ELSE texts[1] \o " " \o JoinedBySpace(Tail(texts))

(***************************************************************************)
(* C33: the text of every transcript row is the texts of the segments of   *)
(* the result, one text (the first alternative) for each segment, in       *)
(* order and joined by a single space.                                     *)
(***************************************************************************)
C33_TextJoinedBySingleSpace ==
    (\A i \in DOMAIN recognition : Len(recognition[i]) >= 1)
        => \A k \in DOMAIN transcriptRows :
              transcriptRows[k] = JoinedBySpace(SegmentTexts(recognition))

RECURSIVE Power(_, _)
Power(b, e) == IF e = 0 THEN 1 ELSE b * Power(b, e - 1)

\* min(initialInterval * multiplier^(k-1), maxInterval), in whole units.
BackoffInterval(cfg, k) ==
    LET grown == (cfg.InitialInterval * Power(cfg.Multiplier[1], k - 1))
                    \div Power(cfg.Multiplier[2], k - 1)
    IN  IF grown > cfg.MaxInterval THEN cfg.MaxInterval ELSE grown

(***************************************************************************)
(* C34: the wait before the k-th retry is                                  *)
(* min(initialInterval * multiplier^(k-1), maxInterval), and so no wait is *)
(* longer than maxInterval, for every configuration.                       *)
(***************************************************************************)
C34_BackoffIntervals ==
    \A k \in DOMAIN waits :
        /\ waits[k] = BackoffInterval(config, k)
        /\ waits[k] <= config.MaxInterval

(***************************************************************************)
(* C35: WaitForResult sends at most MaxWaitTime / OperationPoll + 1        *)
(* requests, sends none after an answer that ends it, and returns: with    *)
(* the result, with a failure, or with the timeout once it has waited more *)
(* than MaxWaitTime.                                                       *)
(***************************************************************************)
PollsBounded ==
    /\ polls <= MaxWaitTime \div OperationPoll + 1
    /\ opc = "returned"
          => /\ opret \in {"result", "error", "failed",
                           "recognition timeout exceeded"}
             /\ opret = "recognition timeout exceeded" => elapsed > MaxWaitTime
    /\ opc # "returned" => opret = "none"

C35_PollingTerminates == []PollsBounded /\ <>(opc = "returned")

C35_Witness ==
    /\ opc = "returned"
    /\ opret = "recognition timeout exceeded"
    /\ polls = MaxWaitTime \div OperationPoll + 1

(***************************************************************************)
(* C36: with cycles of several worker instances for the same task running  *)
(* at overlapping times no update is lost: the stored attempts is the      *)
(* number of failed cycles, and no write of a cycle that began before the  *)
(* task was Done replaces the status Done.                                 *)
(***************************************************************************)
C36_NoLostUpdate ==
    /\ stored.Attempts = failedCycles
    /\ ~overwritten

(***************************************************************************)
(* C37: once the recognition has given a text that is not empty, the cycle *)
(* never goes through handleTaskError, and when ProcessTask returns it     *)
(* returns nil and the message is acknowledged, whether or not the insert  *)
(* of the transcript, the Done update and the sending went through.        *)
(***************************************************************************)
C37_AckedAfterRecognition ==
    [][ (ppc \in {"transcript", "complete", "send"} /\ outcome'.kind # "killed")
        => /\ outcome'.kind \in {"none", "done"}
           /\ stored'.Attempts = stored.Attempts
           /\ notices' = notices
           /\ msg' # "ready"
           /\ ppc' = "idle" => (msg' = "acked" /\ outcome'.kind = "done")
      ]_vars

\* The insert, the update and the sending all failed: the message is
\* acknowledged and the store still holds InProgress and no transcript.
C37_Witness ==
    /\ outcome.kind = "done"
    /\ ~outcome.persisted
    /\ outcome.sent = "failed"
    /\ transcriptRows = <<>>
    /\ stored.Status = TaskStatusInProgress
    /\ msg = "acked"

(***************************************************************************)
(* C38: the pickup step of every cycle sets the operation id of the task   *)
(* to the empty string (a value, not the unset one), whatever id an        *)
(* earlier cycle recorded, and the store takes it when the update goes     *)
(* through: the earlier id is gone before the cycle starts a recognition.  *)
(***************************************************************************)
C38_PickupErasesOperationID ==
    [][ (ppc = "mark" /\ ppc' = "download")
        => /\ task'.OperationID = EmptyOperationID
           /\ task'.OperationID # NilString
           /\ stored' \in {stored, task'}
           /\ operations' = operations
      ]_vars

\* A second cycle has picked the task up: the id the first cycle stored is
\* no longer in the store.
C38_Witness ==
    /\ deliveries = 2
    /\ ppc = "download"
    /\ operations = 1
    /\ task.OperationID = EmptyOperationID
    /\ stored.OperationID = EmptyOperationID
    /\ stored.Attempts = 1
    /\ stored.Status = TaskStatusInProgress

(***************************************************************************)
(* C39: a call that was let through before the breaker opened and whose fn *)
(* returns nil when the breaker is Open zeroes the failure count and        *)
(* leaves the state Open and the time of the last failure as they are; the *)
(* calls made after it still return ErrCircuitOpen, without invoking fn,   *)
(* while the cooldown since the last failure has not elapsed.              *)
(***************************************************************************)
C39_LateSuccessKeepsOpen ==
    [][ /\ (cb.state = StateOpen /\ (\E c \in Callers : Returned(c))
              /\ ~FailureReturned)
            => /\ lastRet' = "nil"
               /\ cb'.failures = 0
               /\ GetState' = StateOpen
               /\ cb'.lastFailTime = cb.lastFailTime
        /\ (cb.state = StateOpen /\ cb.failures = 0 /\ WithinCooldown
              /\ CallMade)
            => /\ lastRet' = ErrCircuitOpen
               /\ invoked' = invoked
               /\ GetState' = StateOpen
      ]_vars

\* After the late success a call has been refused.
C39_Witness ==
    /\ cb.state = StateOpen
    /\ cb.failures = 0
    /\ lastRet = ErrCircuitOpen
    /\ consec = 0
    /\ resets = 0
    /\ \A c \in Callers : pc[c] = "idle"

(***************************************************************************)
(* C40: with MaxAttempts <= 0 RetryWithExponentialBackoff never invokes fn *)
(* (and never sleeps), and when ctx is not cancelled it returns nil.       *)
(***************************************************************************)
C40_NoAttemptsReturnsNil ==
    config.MaxAttempts <= 0
        => /\ fnCalls = 0
           /\ waits = <<>>
           /\ (rpc = "done" /\ ~ctxDone) => result = Nil

\* A call with MaxAttempts = -1 and an fn that would fail has returned nil.
C40_Witness ==
    /\ config.MaxAttempts = 0 - 1
    /\ failN >= 1
    /\ rpc = "done"
    /\ ~ctxDone
    /\ result = Nil
    /\ fnCalls = 0

====
